---------------------------- MODULE Spec2Model ----------------------------
(***************************************************************************)
(* Model of the media-downloader backend: src/downloader.py                *)
(* (SocialDownloader) behind the Flask routes of src/app.py.               *)
(*                                                                         *)
(* Conventions.                                                            *)
(*  - A Python value that may be None (or a dict key that may be absent)   *)
(*    is a tuple of length 0 or 1: <<>> is None/absent, <<v>> is v.        *)
(*  - A Python string that the code searches, lowers, splits or            *)
(*    concatenates (URLs, error messages, file paths, extensions) is a     *)
(*    tuple of one-character strings; '' is <<>>.  Strings the code only   *)
(*    compares or passes through (codec ids, bucket names, labels) are     *)
(*    TLA+ strings.                                                        *)
(*    Their characters are ASCII or Latin-1; str.lower() on other scripts  *)
(*    is not modelled.                                                     *)
(*  - The extraction service (yt_dlp) is external: what it returns, what   *)
(*    it raises and what it writes to disk are inputs of the model.        *)
(*  - The server handles requests in parallel (app.run is threaded) and    *)
(*    the download directory is shared: while a download is between its    *)
(*    service call and its answer, the service calls of other downloads    *)
(*    may write to the directory.  Each filesystem call of download() is a *)
(*    step of its own.                                                     *)
(***************************************************************************)
EXTENDS Integers, Sequences, FiniteSets, TLC

VARIABLES
    pc,        \* "pending": not yet handled; "done": answered; in between,
               \* the filesystem call download() makes next
    request,   \* the call in flight (route or method, and its arguments)
    service,   \* what the extraction service does when this call reaches it
    disk,      \* the download directory: path |-> size in bytes of each file
    ydl_opts,  \* the options the call handed to the extraction service
    filename,  \* download()'s local 'filename' (<<>> before it is set)
    ext_index, \* download()'s position in the list of candidate extensions
    overlapped,\* another download wrote to the directory while this call ran
    response   \* what the call returned (<<>> before it returns)

vars == <<pc, request, service, disk, ydl_opts, filename, ext_index, overlapped,
          response>>

None == <<>>
Some(v) == <<v>>

(***************************************************************************)
(* Bounds of the model.                                                    *)
(***************************************************************************)
MaxFormats == 3      \* longest 'formats' list of a descriptor
MaxHeight == 4400    \* largest height given to _height_to_quality alone
MaxFiles == 2        \* most files in the download directory before a call

(***************************************************************************)
(* Python string operations.                                               *)
(***************************************************************************)
UpperCase == <<"A","B","C","D","E","F","G","H","I","J","K","L","M",
               "N","O","P","Q","R","S","T","U","V","W","X","Y","Z",
               "À","Á","Â","Ã","Ä","Å","Æ","Ç","È","É","Ê","Ë","Ì","Í","Î","Ï",
               "Ð","Ñ","Ò","Ó","Ô","Õ","Ö","Ø","Ù","Ú","Û","Ü","Ý","Þ">>
LowerCase == <<"a","b","c","d","e","f","g","h","i","j","k","l","m",
               "n","o","p","q","r","s","t","u","v","w","x","y","z",
               "à","á","â","ã","ä","å","æ","ç","è","é","ê","ë","ì","í","î","ï",
               "ð","ñ","ò","ó","ô","õ","ö","ø","ù","ú","û","ü","ý","þ">>

\* str.lower() on one character
LowerChar(c) ==
    IF \E i \in 1..Len(UpperCase) : UpperCase[i] = c
    THEN LowerCase[CHOOSE i \in 1..Len(UpperCase) : UpperCase[i] = c]
    ELSE c

\* str.lower()
Lower(s) == [i \in 1..Len(s) |-> LowerChar(s[i])]

\* sub in s
Contains(s, sub) ==
    \E i \in 0..(Len(s) - Len(sub)) : SubSeq(s, i + 1, i + Len(sub)) = sub

\* s.rfind(c): the last index of c in s (1-based), 0 when c is not in s
RFind(s, c) ==
    IF \E i \in 1..Len(s) : s[i] = c
    THEN CHOOSE i \in 1..Len(s) : s[i] = c /\ \A j \in (i+1)..Len(s) : s[j] # c
    ELSE 0

\* os.path.splitext(p)[0]: p up to its last dot, when that dot lies in the
\* last path component and some character other than a dot precedes it there
SplitextBase(p) ==
    LET sepIndex == RFind(p, "/")
        dotIndex == RFind(p, ".")
    IN  IF dotIndex > sepIndex
           /\ \E k \in (sepIndex + 1)..(dotIndex - 1) : p[k] # "."
        THEN SubSeq(p, 1, dotIndex - 1)
        ELSE p

\* os.path.basename(p)
Basename(p) == SubSeq(p, RFind(p, "/") + 1, Len(p))

\* os.path.join(a, b) for a relative b and a non-empty a without a trailing slash
PathJoin(a, b) == a \o <<"/">> \o b

\* Python truthiness of an optional integer: None and 0 are falsy
Truthy(x) == x # None /\ x[1] # 0

\* Python's a or b
PyOr(a, b) == IF Truthy(a) THEN a ELSE b

(***************************************************************************)
(* SocialDownloader._detect_content_type                                   *)
(***************************************************************************)
PhotoPatterns ==
    { <<"/","p","h","o","t","o","/">>, <<"/","i","m","a","g","e","/">>, <<".","j","p","g">>, <<".","p","n","g">>, <<".","j","p","e","g">>, <<".","w","e","b","p">> }

\* info.get('webpage_url', '') or info.get('url', '')
EffectiveUrl(info) ==
    IF info.webpage_url # <<>> THEN info.webpage_url ELSE info.url

has_video(formats) ==
    \E i \in 1..Len(formats) :
        formats[i].vcodec # Some("none") /\ formats[i].vcodec # None

has_audio(formats) ==
    \E i \in 1..Len(formats) :
        formats[i].acodec # Some("none") /\ formats[i].acodec # None

\* A variant of the URL test that forgets url.lower()
UrlLooksLikePhoto_CaseSensitive(url) ==
    \E x \in PhotoPatterns : Contains(url, x)

UrlLooksLikePhoto(url) ==
    \E x \in PhotoPatterns : Contains(Lower(url), x)

\* A variant that tests the duration before it looks for audio
detect_content_type_DurationFirst(info) ==
    IF info.type = Some("image") THEN "photo"
    ELSE IF UrlLooksLikePhoto(EffectiveUrl(info)) THEN "photo"
    ELSE IF ~has_video(info.formats) /\ ~has_audio(info.formats) THEN "photo"
    ELSE IF info.duration = None \/ info.duration = Some(0) THEN "photo"
    ELSE IF ~has_video(info.formats) /\ has_audio(info.formats) THEN "audio"
    ELSE "video"

detect_content_type(info) ==
    IF info.type = Some("image") THEN "photo"
    ELSE IF UrlLooksLikePhoto(EffectiveUrl(info)) THEN "photo"
    ELSE IF ~has_video(info.formats) /\ ~has_audio(info.formats) THEN "photo"
    ELSE IF ~has_video(info.formats) /\ has_audio(info.formats) THEN "audio"
    ELSE IF (info.duration = None \/ info.duration = Some(0))
            /\ ~has_audio(info.formats) THEN "photo"
    ELSE "video"

(***************************************************************************)
(* SocialDownloader._height_to_quality, _get_quality_label                 *)
(***************************************************************************)
\* A variant whose comparisons are strict
height_to_quality_Strict(height) ==
    IF height > 4320 THEN Some("8k")
    ELSE IF height > 2160 THEN Some("4k")
    ELSE IF height > 1440 THEN Some("2k")
    ELSE IF height > 1080 THEN Some("1080p")
    ELSE IF height > 720 THEN Some("720p")
    ELSE IF height > 480 THEN Some("480p")
    ELSE IF height > 360 THEN Some("360p")
    ELSE IF height > 240 THEN Some("240p")
    ELSE IF height > 144 THEN Some("144p")
    ELSE None

height_to_quality(height) ==
    IF height >= 4320 THEN Some("8k")
    ELSE IF height >= 2160 THEN Some("4k")
    ELSE IF height >= 1440 THEN Some("2k")
    ELSE IF height >= 1080 THEN Some("1080p")
    ELSE IF height >= 720 THEN Some("720p")
    ELSE IF height >= 480 THEN Some("480p")
    ELSE IF height >= 360 THEN Some("360p")
    ELSE IF height >= 240 THEN Some("240p")
    ELSE IF height >= 144 THEN Some("144p")
    ELSE None

labels ==
    [q \in {"8k", "4k", "2k", "1080p", "720p", "480p", "360p", "240p", "144p"} |->
        CASE q = "8k" -> "8K Ultra HD (4320p)"
          [] q = "4k" -> "4K Ultra HD (2160p)"
          [] q = "2k" -> "2K QHD (1440p)"
          [] q = "1080p" -> "Full HD (1080p)"
          [] q = "720p" -> "HD (720p)"
          [] q = "480p" -> "SD (480p)"
          [] q = "360p" -> "360p"
          [] q = "240p" -> "240p"
          [] q = "144p" -> "144p"]

get_quality_label(quality) ==
    IF quality \in DOMAIN labels THEN labels[quality] ELSE quality

(***************************************************************************)
(* SocialDownloader._get_available_qualities                               *)
(***************************************************************************)
\* One iteration of the loop over info['formats']: the dict 'qualities'
\* after variant f has been looked at.
\* A variant without the 'not in qualities' test: the last variant of a bucket wins
StoreQuality_Overwrite(qualities, f) ==
    IF Truthy(f.height) /\ f.vcodec # Some("none")
    THEN LET quality_label == height_to_quality(f.height[1])
         IN  IF quality_label # None
             THEN [q \in (DOMAIN qualities) \cup {quality_label[1]} |->
                     IF q = quality_label[1]
                     THEN [height    |-> f.height[1],
                           filesize  |-> PyOr(f.filesize, f.filesize_approx),
                           ext       |-> f.ext,
                           available |-> TRUE]
                     ELSE qualities[q]]
             ELSE qualities
    ELSE qualities

StoreQuality(qualities, f) ==
    IF Truthy(f.height) /\ f.vcodec # Some("none")
    THEN LET quality_label == height_to_quality(f.height[1])
         IN  IF quality_label # None /\ quality_label[1] \notin DOMAIN qualities
             THEN qualities @@ (quality_label[1] :>
                     [height    |-> f.height[1],
                      filesize  |-> PyOr(f.filesize, f.filesize_approx),
                      ext       |-> f.ext,
                      available |-> TRUE])
             ELSE qualities
    ELSE qualities

\* The dict 'qualities' after the loop has run over the first n variants.
RECURSIVE CollectQualities(_, _)
CollectQualities(formats, n) ==
    IF n = 0 THEN <<>>
    ELSE StoreQuality(CollectQualities(formats, n - 1), formats[n])

\* A variant that lists the buckets from lowest to highest
order_LowestFirst == <<"144p", "240p", "360p", "480p", "720p", "1080p", "2k", "4k", "8k">>

order == <<"8k", "4k", "2k", "1080p", "720p", "480p", "360p", "240p", "144p">>

\* The list 'result' after the loop over the first n entries of 'order'.
RECURSIVE EmitQualities(_, _)
EmitQualities(qualities, n) ==
    IF n = 0 THEN <<>>
    ELSE LET q == order[n]
             before == EmitQualities(qualities, n - 1)
         IN  IF q \in DOMAIN qualities
             THEN Append(before,
                     [value     |-> q,
                      label     |-> get_quality_label(q),
                      available |-> TRUE,
                      filesize  |-> qualities[q].filesize])
             ELSE before

get_available_qualities(info) ==
    EmitQualities(CollectQualities(info.formats, Len(info.formats)), Len(order))

(***************************************************************************)
(* SocialDownloader._get_available_formats                                 *)
(***************************************************************************)
Fmt(v, l) == [value |-> v, label |-> l, available |-> TRUE]

get_available_formats(info, content_type) ==
    IF content_type = "photo"
    THEN [type |-> "photo",
          formats |-> <<Fmt("jpg", "JPG (Recommended)"),
                        Fmt("png", "PNG (High Quality)"),
                        Fmt("webp", "WebP")>>]
    ELSE IF content_type = "audio"
    THEN [type |-> "audio",
          formats |-> <<Fmt("mp3", "MP3 (Recommended)"),
                        Fmt("m4a", "M4A"),
                        Fmt("wav", "WAV (Lossless)")>>]
    ELSE [type |-> "video",
          video_formats |-> <<Fmt("mp4", "MP4 (Recommended)"),
                              Fmt("webm", "WebM"),
                              Fmt("mkv", "MKV")>>,
          audio_formats |-> <<Fmt("mp3", "MP3 (Recommended)"),
                              Fmt("m4a", "M4A"),
                              Fmt("wav", "WAV")>>]

(***************************************************************************)
(* SocialDownloader._get_download_options                                  *)
(***************************************************************************)
quality_map ==
    [q \in {"8k", "4k", "2k", "1080p", "720p", "480p", "360p", "240p", "144p"} |->
        CASE q = "8k" -> 4320
          [] q = "4k" -> 2160
          [] q = "2k" -> 1440
          [] q = "1080p" -> 1080
          [] q = "720p" -> 720
          [] q = "480p" -> 480
          [] q = "360p" -> 360
          [] q = "240p" -> 240
          [] q = "144p" -> 144]

\* The format selector f'bestvideo[height<={height}]+bestaudio/best[height<={height}]'
\* is the tuple of its literal pieces and the two interpolated heights.
get_download_options(quality, format_type, download_type) ==
    IF download_type = "photo"
    THEN [quiet |-> TRUE, no_warnings |-> TRUE]
    ELSE IF download_type = "audio"
    THEN [format |-> <<"bestaudio/best">>,
          postprocessors |-> <<[key |-> "FFmpegExtractAudio",
                                preferredcodec |-> format_type,
                                preferredquality |-> "320"]>>,
          quiet |-> FALSE]
    ELSE [format |->
             IF quality \in DOMAIN quality_map
             THEN LET height == quality_map[quality]
                  IN  <<"bestvideo[height<=", height,
                        "]+bestaudio/best[height<=", height, "]">>
             ELSE <<"bestvideo+bestaudio/best">>,
          merge_output_format |-> format_type,
          quiet |-> FALSE]

(***************************************************************************)
(* SocialDownloader._format_filesize                                       *)
(***************************************************************************)
units == <<"B", "KB", "MB", "GB">>

RECURSIVE Pow1024(_)
Pow1024(k) == IF k = 0 THEN 1 ELSE 1024 * Pow1024(k - 1)

\* f"{size:.1f} {unit}" for size = n / 1024^k (exact in a float): the value
\* rounded to one decimal, ties to even, as [int].[frac] [unit]
Render(n, k, unit) ==
    LET d == Pow1024(k)
        t == (10 * n) \div d
        r == (10 * n) % d
        tenths == IF 2 * r > d \/ (2 * r = d /\ t % 2 = 1) THEN t + 1 ELSE t
    IN  [int |-> tenths \div 10, frac |-> tenths % 10, unit |-> unit]

\* The loop over the units, entered at unit number i with size = n / 1024^(i-1)
RECURSIVE FormatFrom(_, _)
FormatFrom(n, i) ==
    IF i > Len(units) THEN Render(n, i - 1, "TB")
    ELSE IF n < 1024 * Pow1024(i - 1) THEN Render(n, i - 1, units[i])
    ELSE FormatFrom(n, i + 1)

format_filesize(size) == FormatFrom(size, 1)

(***************************************************************************)
(* SocialDownloader.get_video_info                                         *)
(***************************************************************************)
\* A dict key read with a default is <<>> when the key is absent and <<x>>
\* when it is present with value x, where x is None or Some(v).
Missing == <<>>
Present(x) == <<x>>

\* dict.get(key, default): the default only for an absent key
GetOr(field, default) == IF field = Missing THEN Some(default) ELSE field[1]

Failure(msg) == [success |-> FALSE, error |-> msg]

\* str[:n]
Prefix(s, n) == SubSeq(s, 1, IF Len(s) < n THEN Len(s) ELSE n)

\* The body of the try block once the descriptor is there; slicing a
\* description that is None raises, and the except clause answers str(e).
get_video_info(svc) ==
    IF svc.raises THEN Failure(svc.msg)
    ELSE LET info == svc.info
             content_type == detect_content_type(info)
             available_qualities == get_available_qualities(info)
             description == GetOr(info.description, <<>>)
         IN  IF description = None
             THEN Failure(<<"'","N","o","n","e","T","y","p","e","'"," ","o","b","j","e","c","t"," ","i","s"," ","n","o","t"," ","s","u","b","s","c","r","i","p","t","a","b","l","e">>)
             ELSE [success             |-> TRUE,
                   title               |-> GetOr(info.title, <<"U","n","k","n","o","w","n">>),
                   thumbnail           |-> info.thumbnail,
                   duration            |-> info.duration,
                   platform            |-> GetOr(info.extractor_key, "Unknown"),
                   uploader            |-> GetOr(info.uploader, "Unknown"),
                   view_count          |-> info.view_count,
                   content_type        |-> content_type,
                   available_qualities |-> available_qualities,
                   available_formats   |-> get_available_formats(info, content_type),
                   description         |-> Prefix(description[1], 200),
                   width               |-> info.width,
                   height              |-> info.height]

(***************************************************************************)
(* SocialDownloader.download                                               *)
(***************************************************************************)
download_path == <<"d","o","w","n","l","o","a","d","s">>

\* ydl.prepare_filename(info) under outtmpl '<download_path>/%(title)s.%(ext)s'
prepare_filename(title, ext) == PathJoin(download_path, title \o <<".">> \o ext)

\* os.path.exists(p), os.path.getsize(p)
Exists(d, p) == p \in DOMAIN d
Getsize(d, p) == d[p]

\* The directory d after a file of the given size is created or overwritten at p
WriteFile(d, p, size) ==
    [q \in (DOMAIN d) \cup {p} |-> IF q = p THEN size ELSE d[q]]

\* The download directory after the extraction service has run: it leaves the
\* directory alone when it raises or writes nothing, and otherwise creates or
\* overwrites one file named after the title.
AfterService(d, svc) ==
    IF svc.raises \/ svc.writes = None THEN d
    ELSE WriteFile(d, prepare_filename(svc.info.title, svc.writes[1].ext),
                   svc.writes[1].size)

\* A variant that tries mkv before webm
FallbackExts_MkvBeforeWebm ==
    << <<"m","p","4">>, <<"m","k","v">>, <<"w","e","b","m">>, <<"m","p","3">>, <<"m","4","a">>, <<"w","a","v">>, <<"j","p","g">>, <<"p","n","g">>, <<"w","e","b","p">> >>

FallbackExts ==
    << <<"m","p","4">>, <<"w","e","b","m">>, <<"m","k","v">>, <<"m","p","3">>, <<"m","4","a">>, <<"w","a","v">>, <<"j","p","g">>, <<"p","n","g">>, <<"w","e","b","p">> >>

Success(info, d, path) ==
    [success           |-> TRUE,
     title             |-> info.title,
     filename          |-> Basename(path),
     filepath          |-> path,
     platform          |-> info.extractor_key,
     filesize          |-> Getsize(d, path),
     filesize_readable |-> format_filesize(Getsize(d, path))]

\* The except clause
OnException(error_msg) ==
    IF Contains(Lower(error_msg), <<"u","n","a","v","a","i","l","a","b","l","e">>)
    THEN Failure(<<"T","h","i","s"," ","q","u","a","l","i","t","y"," ","i","s"," ","n","o","t"," ","a","v","a","i","l","a","b","l","e","."," ","P","l","e","a","s","e"," ","t","r","y"," ","a"," ","l","o","w","e","r"," ","q","u","a","l","i","t","y",".">>)
    ELSE Failure(error_msg)

\* 'filename' as download() holds it before it looks at the directory
PredictedFilename(svc, format_type, download_type) ==
    LET predicted == prepare_filename(svc.info.title, svc.ext)
    IN  IF download_type = "audio"
        THEN SplitextBase(predicted) \o <<".">> \o format_type
        ELSE predicted

\* test_file for candidate number i
TestFile(name, i) == SplitextBase(name) \o <<".">> \o FallbackExts[i]

(***************************************************************************)
(* Inputs: descriptors the extraction service may return to a probe.       *)
(***************************************************************************)
Variant(h, vc, ac, e, fs, fa) ==
    [height |-> h, vcodec |-> vc, acodec |-> ac, ext |-> e,
     filesize |-> fs, filesize_approx |-> fa]

\* File sizes of variants are unknown (None), zero or positive.
Variants ==
    { Variant(Some(1080), Some("avc1"), Some("mp4a"), Some("mp4"), Some(100), None),
      Variant(Some(1088), Some("avc1"), Some("none"), Some("mp4"), None, Some(200)),
      Variant(Some(720), Some("vp9"), Some("none"), Some("webm"), Some(300), Some(310)),
      Variant(Some(720), None, Some("mp4a"), Some("mp4"), Some(0), Some(70)),
      Variant(Some(480), Some("avc1"), Some("mp4a"), Some("mp4"), Some(0), None),
      Variant(Some(1080), Some("none"), Some("none"), Some("mhtml"), None, None),
      Variant(Some(2160), Some("avc1"), None, Some("mp4"), None, None),
      Variant(Some(143), Some("avc1"), Some("none"), Some("3gp"), Some(10), None),
      Variant(None, Some("none"), Some("opus"), Some("webm"), Some(50), None) }

RECURSIVE SeqsUpTo(_, _)
SeqsUpTo(S, n) ==
    IF n = 0 THEN { <<>> }
    ELSE LET shorter == SeqsUpTo(S, n - 1)
         IN  shorter \cup { Append(q, x) : q \in { r \in shorter : Len(r) = n - 1 }, x \in S }

\* <<webpage_url, url>>
UrlPairs ==
    { << <<>>, <<>> >>,
      << <<"x",".","c","o","/","w","a","t","c","h","?","v","=","1">>, <<>> >>,
      << <<"x",".","c","o","/","w","a","t","c","h","?","v","=","1">>, <<"c","d","n",".","x","/","a",".","j","p","g">> >>,
      << <<>>, <<"c","d","n",".","x","/","a",".","J","P","G">> >>,
      << <<"x",".","c","o","/","P","h","o","t","o","/","1">>, <<>> >>,
      << <<"x",".","c","o","/","p","h","o","t","o","s">>, <<>> >> }

Descriptor(t, u, d, fmts, ti, ek, up, de) ==
    [type |-> t, webpage_url |-> u[1], url |-> u[2], duration |-> d,
     formats |-> fmts,
     title |-> ti, extractor_key |-> ek, uploader |-> up, description |-> de,
     thumbnail |-> None, view_count |-> Some(7), width |-> None, height |-> None]

\* A description longer than the 200 characters the answer keeps
LongText == [k \in 1..201 |-> IF k = 201 THEN "!" ELSE "x"]

\* Descriptors that differ in what the classification reads
ClassifiedDescriptors ==
    { Descriptor(t, u, d, fmts, Present(Some(<<"c","l","i","p">>)), Present(Some("Youtube")),
                 Missing, Present(Some(<<"a","b","o","u","t">>))) :
        t \in { None, Some("image"), Some("video") },
        u \in UrlPairs,
        d \in { None, Some(0), Some(120) },
        fmts \in SeqsUpTo(Variants, MaxFormats) }

\* Descriptors that differ in the keys the answer reads with a default:
\* absent, present with None, present with a value
DefaultedDescriptors ==
    { Descriptor(Some("video"), << <<"x",".","c","o","/","w","a","t","c","h","?","v","=","1">>, <<>> >>, Some(120), <<f>>,
                 ti, ek, up, de) :
        f \in Variants,
        ti \in { Missing, Present(None), Present(Some(<<"c","l","i","p">>)) },
        ek \in { Missing, Present(None), Present(Some("Youtube")) },
        up \in { Missing, Present(None), Present(Some("me")) },
        de \in { Missing, Present(None), Present(Some(<<"a","b","o","u","t">>)), Present(Some(LongText)) } }

Descriptors == ClassifiedDescriptors \cup DefaultedDescriptors

ErrorMessages ==
    { <<"R","e","q","u","e","s","t","e","d"," ","f","o","r","m","a","t"," ","i","s"," ","n","o","t"," ","a","v","a","i","l","a","b","l","e">>,
      <<"V","i","d","e","o"," ","u","n","a","v","a","i","l","a","b","l","e">>,
      <<"V","I","D","E","O"," ","U","N","A","V","A","I","L","A","B","L","E"," ","i","n"," ","y","o","u","r"," ","c","o","u","n","t","r","y">>,
      <<"U","n","s","u","p","p","o","r","t","e","d"," ","U","R","L">> }

Raises(m) == [raises |-> TRUE, msg |-> m]
NoService == [raises |-> FALSE]

(***************************************************************************)
(* Inputs: what the extraction service may do for a download, and what the *)
(* download directory may hold before it.                                  *)
(***************************************************************************)
\* A title that restrictfilenames leaves as it is, with a dot in it.
Titles == { <<"a",".","b">> }
Sizes == { 0, 1536 }
PredictedExts == { <<"m","p","4">>, <<"w","e","b","m">> }
WrittenExts == { <<"m","p","4">>, <<"w","e","b","m">>, <<"m","k","v">>, <<"m","p","3">> }

Returns ==
    { [raises |-> FALSE,
       info   |-> [title |-> t, extractor_key |-> Some("Youtube")],
       ext    |-> e,
       writes |-> w] :
        t \in Titles, e \in PredictedExts,
        w \in { None } \cup { Some([ext |-> x, size |-> z]) : x \in WrittenExts, z \in Sizes } }

DiskPaths == { prepare_filename(t, x) : t \in Titles, x \in WrittenExts }

Disks ==
    UNION { [P -> Sizes] : P \in { Q \in SUBSET DiskPaths : Cardinality(Q) <= MaxFiles } }

DownloadRequest(q, f, t) ==
    [op |-> "download", url |-> <<"x",".","c","o","/","w","a","t","c","h","?","v","=","1">>, quality |-> q, format |-> f,
     download_type |-> t]

DownloadRequests ==
    { DownloadRequest(q, f, "video") : q \in { "highest", "1080p" }, f \in { <<"m","p","4">>, <<"m","p","3">> } }
    \cup { DownloadRequest("highest", f, "audio") : f \in { <<"m","p","4">>, <<"m","p","3">> } }
    \cup { DownloadRequest("highest", <<"m","p","4">>, "photo") }

(***************************************************************************)
(* app.get_info: POST /api/info                                            *)
(***************************************************************************)
NoLocals ==
    /\ filename = None
    /\ ext_index = 0
    /\ overlapped = FALSE

InitInfo ==
    /\ pc = "pending"
    /\ disk = <<>>
    /\ ydl_opts = None
    /\ response = None
    /\ NoLocals
    /\ \/ request = [op |-> "info", url |-> <<>>] /\ service = NoService
       \/ /\ request = [op |-> "info", url |-> <<"x",".","c","o","/","w","a","t","c","h","?","v","=","1">>]
          /\ service \in { Raises(m) : m \in ErrorMessages }
                         \cup { [raises |-> FALSE, info |-> i] : i \in Descriptors }

get_info ==
    /\ pc = "pending"
    /\ request.op = "info"
    /\ IF request.url = <<>>
       THEN /\ response' = Some([status |-> 400, body |-> Failure(<<"U","R","L"," ","i","s"," ","r","e","q","u","i","r","e","d">>)])
            /\ UNCHANGED ydl_opts
       ELSE /\ ydl_opts' = Some([quiet |-> TRUE, no_warnings |-> TRUE, extract_flat |-> FALSE])
            /\ response' = Some([status |-> 200, body |-> get_video_info(service)])
    /\ pc' = "done"
    /\ UNCHANGED <<request, service, disk, filename, ext_index, overlapped>>

(***************************************************************************)
(* app.download_media: POST /api/download, and SocialDownloader.download   *)
(* one filesystem call at a time                                           *)
(***************************************************************************)
InitDownload ==
    /\ pc = "pending"
    /\ ydl_opts = None
    /\ response = None
    /\ NoLocals
    /\ disk \in Disks
    /\ \/ /\ request = [op |-> "download", url |-> <<>>, quality |-> "highest",
                        format |-> <<"m","p","4">>, download_type |-> "video"]
          /\ service = NoService
       \/ /\ request \in DownloadRequests
          /\ service \in { Raises(m) : m \in ErrorMessages } \cup Returns

Answer(body) == Some([status |-> 200, body |-> body])

\* The route up to and including ydl.extract_info and ydl.prepare_filename:
\* the options are built, the service runs (and may write its file or raise),
\* and 'filename' is set.
download_media ==
    /\ pc = "pending"
    /\ request.op = "download"
    /\ IF request.url = <<>>
       THEN /\ response' = Some([status |-> 400, body |-> Failure(<<"U","R","L"," ","i","s"," ","r","e","q","u","i","r","e","d">>)])
            /\ pc' = "done"
            /\ UNCHANGED <<ydl_opts, disk, filename>>
       ELSE /\ ydl_opts' =
                 Some([outtmpl |-> PathJoin(download_path, <<"%","(","t","i","t","l","e",")","s",".","%","(","e","x","t",")","s">>),
                       restrictfilenames |-> TRUE]
                      @@ get_download_options(request.quality, request.format,
                                              request.download_type))
            /\ disk' = AfterService(disk, service)
            /\ IF service.raises
               THEN /\ response' = Answer(OnException(service.msg))
                    /\ pc' = "done"
                    /\ UNCHANGED filename
               ELSE /\ filename' = Some(PredictedFilename(service, request.format,
                                                          request.download_type))
                    /\ pc' = "exists"
                    /\ UNCHANGED response
    /\ UNCHANGED <<request, service, ext_index, overlapped>>

\* if os.path.exists(filename)
check_exists ==
    /\ pc = "exists"
    /\ IF Exists(disk, filename[1])
       THEN pc' = "getsize" /\ UNCHANGED ext_index
       ELSE pc' = "try_extension" /\ ext_index' = 1
    /\ UNCHANGED <<request, service, disk, ydl_opts, filename, overlapped, response>>

\* filesize = os.path.getsize(filename), and the answer of that branch
check_filesize ==
    /\ pc = "getsize"
    /\ response' = Answer(IF Getsize(disk, filename[1]) = 0
                          THEN Failure(<<"D","o","w","n","l","o","a","d","e","d"," ","f","i","l","e"," ","i","s"," ","e","m","p","t","y","."," ","T","r","y"," ","a"," ","d","i","f","f","e","r","e","n","t"," ","q","u","a","l","i","t","y",".">>)
                          ELSE Success(service.info, disk, filename[1]))
    /\ pc' = "done"
    /\ UNCHANGED <<request, service, disk, ydl_opts, filename, ext_index, overlapped>>

\* One turn of the loop over the candidate extensions: os.path.exists(test_file);
\* after the last candidate the loop ends and the failure is answered.
try_extension ==
    /\ pc = "try_extension"
    /\ IF Exists(disk, TestFile(filename[1], ext_index))
       THEN pc' = "found" /\ UNCHANGED <<ext_index, response>>
       ELSE IF ext_index < Len(FallbackExts)
       THEN ext_index' = ext_index + 1 /\ UNCHANGED <<pc, response>>
       ELSE /\ response' = Answer(Failure(<<"C","o","u","l","d"," ","n","o","t"," ","f","i","n","d"," ","d","o","w","n","l","o","a","d","e","d"," ","f","i","l","e",".">>))
            /\ pc' = "done"
            /\ UNCHANGED ext_index
    /\ UNCHANGED <<request, service, disk, ydl_opts, filename, overlapped>>

\* filesize = os.path.getsize(test_file), and the answer of the loop
found_filesize ==
    /\ pc = "found"
    /\ response' = Answer(Success(service.info, disk, TestFile(filename[1], ext_index)))
    /\ pc' = "done"
    /\ UNCHANGED <<request, service, disk, ydl_opts, filename, ext_index, overlapped>>

\* The extraction service of another download, running in another thread,
\* writes its file into the shared directory while this call is between its
\* own service call and its answer.
other_download_writes ==
    /\ pc \in { "exists", "getsize", "try_extension", "found" }
    /\ \E p \in DiskPaths, z \in Sizes : disk' = WriteFile(disk, p, z)
    /\ overlapped' = TRUE
    /\ UNCHANGED <<pc, request, service, ydl_opts, filename, ext_index, response>>

(***************************************************************************)
(* A call of SocialDownloader._height_to_quality on its own                *)
(***************************************************************************)
InitHeight ==
    /\ pc = "pending"
    /\ disk = <<>>
    /\ ydl_opts = None
    /\ response = None
    /\ NoLocals
    /\ service = NoService
    /\ request \in { [op |-> "height_to_quality", height |-> h] : h \in 1..MaxHeight }

call_height_to_quality ==
    /\ pc = "pending"
    /\ request.op = "height_to_quality"
    /\ response' = Some(height_to_quality(request.height))
    /\ pc' = "done"
    /\ UNCHANGED <<request, service, disk, ydl_opts, filename, ext_index, overlapped>>

(***************************************************************************)
(* Specifications                                                          *)
(***************************************************************************)
NextInfo == get_info
SpecInfo == InitInfo /\ [][NextInfo]_vars

NextDownload ==
    \/ download_media
    \/ check_exists
    \/ check_filesize
    \/ try_extension
    \/ found_filesize
    \/ other_download_writes
SpecDownload == InitDownload /\ [][NextDownload]_vars

NextHeight == call_height_to_quality
SpecHeight == InitHeight /\ [][NextHeight]_vars

Init == InitInfo \/ InitDownload \/ InitHeight
Next == get_info \/ NextDownload \/ call_height_to_quality
Spec == Init /\ [][Next]_vars

(***************************************************************************)
(* Properties                                                              *)
(***************************************************************************)
Body == response[1].body

\* The probe was answered from a descriptor.
InfoDone ==
    /\ pc = "done" /\ request.op = "info" /\ request.url # <<>> /\ ~service.raises
    /\ Body.success

\* The download ran and the extraction service returned without raising.
DownloadReturned ==
    pc = "done" /\ request.op = "download" /\ request.url # <<>> /\ ~service.raises

Friendly == <<"T","h","i","s"," ","q","u","a","l","i","t","y"," ","i","s"," ","n","o","t"," ","a","v","a","i","l","a","b","l","e","."," ","P","l","e","a","s","e"," ","t","r","y"," ","a"," ","l","o","w","e","r"," ","q","u","a","l","i","t","y",".">>

\* C1: when the extraction service raises during download() with a message
\* containing "Requested format is not available", download() returns
\* {success: false, error: "This quality is not available. Please try a
\* lower quality."}.
C1_FormatNotAvailableIsFriendly ==
    ( /\ pc = "done" /\ request.op = "download" /\ request.url # <<>>
      /\ service.raises
      /\ Contains(service.msg, <<"R","e","q","u","e","s","t","e","d"," ","f","o","r","m","a","t"," ","i","s"," ","n","o","t"," ","a","v","a","i","l","a","b","l","e">>) )
    => Body = [success |-> FALSE, error |-> Friendly]

IsPresentCodec(c) == c # None /\ c # Some("none")

\* The descriptor has an audio-only variant and no variant with a video codec.
AudioOnlyDescriptor(info) ==
    /\ \E i \in 1..Len(info.formats) :
          IsPresentCodec(info.formats[i].acodec) /\ ~IsPresentCodec(info.formats[i].vcodec)
    /\ \A i \in 1..Len(info.formats) : ~IsPresentCodec(info.formats[i].vcodec)

\* The URL the detector reads contains one of the photo patterns, whatever its case.
MatchesPhotoPattern(url) ==
    \E x \in { <<"/","p","h","o","t","o","/">>, <<"/","i","m","a","g","e","/">>, <<".","j","p","g">>, <<".","p","n","g">>, <<".","j","p","e","g">>, <<".","w","e","b","p">> } :
        Contains(Lower(url), x)

\* C2 as stated: a descriptor with an audio-only variant and no video variant
\* is classified 'audio' whatever its type tag, URL and duration are.
C2_AudioOnlyAlwaysAudio ==
    (InfoDone /\ AudioOnlyDescriptor(service.info)) => Body.content_type = "audio"

\* C2 as amended: a descriptor with an audio-only variant and no video variant
\* is classified 'audio' whatever its duration is, provided its type tag is
\* not "image" and its URL (webpage_url, or url when that is empty) contains
\* none of the photo patterns.
C2_AudioOnlyIsAudioUnlessPhotoTagOrUrl ==
    ( /\ InfoDone
      /\ AudioOnlyDescriptor(service.info)
      /\ service.info.type # Some("image")
      /\ ~MatchesPhotoPattern(EffectiveUrl(service.info)) )
    => Body.content_type = "audio"

C2_Witness ==
    /\ InfoDone
    /\ AudioOnlyDescriptor(service.info)
    /\ service.info.type = Some("video")
    /\ service.info.webpage_url = <<"x",".","c","o","/","p","h","o","t","o","s">>
    /\ service.info.duration = None
    /\ Body.content_type = "audio"

\* C3: the detected content type is the result of the first matching rule of:
\* (1) type tag "image" -> photo; (2) URL contains a photo pattern, whatever
\* its case -> photo; (3,4) neither a video nor an audio codec in any variant
\* -> photo; (5) audio without video -> audio; (6) duration null or zero and
\* no audio -> photo; (7) otherwise video.
C3_FirstMatchingRule ==
    InfoDone =>
        LET info == service.info
            r1 == info.type = Some("image")
            r2 == MatchesPhotoPattern(EffectiveUrl(info))
            hv == \E i \in 1..Len(info.formats) : IsPresentCodec(info.formats[i].vcodec)
            ha == \E i \in 1..Len(info.formats) : IsPresentCodec(info.formats[i].acodec)
            r4 == ~hv /\ ~ha
            r5 == ha /\ ~hv
            r6 == info.duration \in { None, Some(0) } /\ ~ha
            ct == Body.content_type
        IN  /\ r1 => ct = "photo"
            /\ (~r1 /\ r2) => ct = "photo"
            /\ (~r1 /\ ~r2 /\ r4) => ct = "photo"
            /\ (~r1 /\ ~r2 /\ ~r4 /\ r5) => ct = "audio"
            /\ (~r1 /\ ~r2 /\ ~r4 /\ ~r5 /\ r6) => ct = "photo"
            /\ (~r1 /\ ~r2 /\ ~r4 /\ ~r5 /\ ~r6) => ct = "video"

\* Rule 2 decides, on a URL whose pattern is not in lower case, for a
\* descriptor that the later rules would call video.
C3_Witness ==
    /\ InfoDone
    /\ service.info.type = Some("video")
    /\ service.info.webpage_url = <<"x",".","c","o","/","P","h","o","t","o","/","1">>
    /\ service.info.duration = Some(120)
    /\ \E i \in 1..Len(service.info.formats) :
          /\ IsPresentCodec(service.info.formats[i].vcodec)
          /\ IsPresentCodec(service.info.formats[i].acodec)
    /\ Body.content_type = "photo"

BestToWorst == <<"8k", "4k", "2k", "1080p", "720p", "480p", "360p", "240p", "144p">>
Rank(q) == CHOOSE k \in 1..Len(BestToWorst) : BestToWorst[k] = q

\* C4: the quality list has no two entries with the same bucket, and its
\* entries follow the order 8k, 4k, 2k, 1080p, 720p, 480p, 360p, 240p, 144p,
\* whatever the order of the variants.
C4_NoDuplicateAndOrdered ==
    InfoDone =>
        LET r == Body.available_qualities
        IN  /\ \A i \in 1..Len(r) : \E k \in 1..Len(BestToWorst) : BestToWorst[k] = r[i].value
            /\ \A i, j \in 1..Len(r) : i < j => Rank(r[i].value) < Rank(r[j].value)

\* Three variants, lowest first, two of them in one bucket: two entries, best first.
C4_Witness ==
    /\ InfoDone
    /\ Len(service.info.formats) = 3
    /\ service.info.formats[1].height = Some(720)
    /\ service.info.formats[1].vcodec = Some("vp9")
    /\ service.info.formats[2].height = Some(1080)
    /\ service.info.formats[2].vcodec = Some("avc1")
    /\ service.info.formats[3].height = Some(1088)
    /\ Len(Body.available_qualities) = 2
    /\ Body.available_qualities[1].value = "1080p"
    /\ Body.available_qualities[2].value = "720p"

Thresholds ==
    { <<4320, "8k">>, <<2160, "4k">>, <<1440, "2k">>, <<1080, "1080p">>,
      <<720, "720p">>, <<480, "480p">>, <<360, "360p">>, <<240, "240p">>,
      <<144, "144p">> }

\* C5: for a positive height h, _height_to_quality(h) is the bucket of the
\* largest threshold t of the table with h >= t, and none when h < 144.
C5_LargestThresholdWins ==
    (pc = "done" /\ request.op = "height_to_quality") =>
        LET h == request.height
            met == { t \in Thresholds : h >= t[1] }
        IN  IF met = {}
            THEN h < 144 /\ response[1] = None
            ELSE \E t \in met :
                    /\ \A u \in met : u[1] <= t[1]
                    /\ response[1] = Some(t[2])

C5_Witness ==
    /\ pc = "done"
    /\ request.op = "height_to_quality"
    /\ request.height = 2160
    /\ response[1] = Some("4k")

Priority ==
    << <<"m","p","4">>, <<"w","e","b","m">>, <<"m","k","v">>, <<"m","p","3">>, <<"m","4","a">>, <<"w","a","v">>, <<"j","p","g">>, <<"p","n","g">>, <<"w","e","b","p">> >>

\* <download_path>/<title>, the path of the output without its extension
OutputBase == download_path \o <<"/">> \o service.info.title

\* The predicted output path, after the audio extension rewrite
PredictedPath ==
    OutputBase \o <<".">> \o
        (IF request.download_type = "audio" THEN request.format ELSE service.ext)

\* The response the fallback search owes for the files now on disk
FallbackAnswerFor(files) ==
    LET found == { k \in 1..Len(Priority) : (OutputBase \o <<".">> \o Priority[k]) \in files }
    IN  IF found = {}
        THEN Body = [success |-> FALSE, error |-> <<"C","o","u","l","d"," ","n","o","t"," ","f","i","n","d"," ","d","o","w","n","l","o","a","d","e","d"," ","f","i","l","e",".">>]
        ELSE LET k == CHOOSE m \in found : \A n \in found : m <= n
             IN  /\ Body.success
                 /\ Body.filepath = OutputBase \o <<".">> \o Priority[k]
                 /\ Body.filename = service.info.title \o <<".">> \o Priority[k]

\* C6 as stated: when the service returns and the predicted path (after the
\* audio rewrite) does not exist, the response is a success naming
\* <base>.<ext> for the first extension of mp4, webm, mkv, mp3, m4a, wav, jpg,
\* png, webp for which that file exists, and {success: false, error: "Could
\* not find downloaded file."} when there is none.
C6_FallbackFirstMatch ==
    (DownloadReturned /\ PredictedPath \notin DOMAIN disk) => FallbackAnswerFor(DOMAIN disk)

\* C6 as amended: the same, provided no other download wrote into the
\* download directory between this call's service call and its response.
C6_FallbackFirstMatchUndisturbed ==
    (DownloadReturned /\ ~overlapped /\ PredictedPath \notin DOMAIN disk)
        => FallbackAnswerFor(DOMAIN disk)

\* Undisturbed, the predicted a.b.mp4 is missing, a.b.webm and a.b.mkv exist:
\* a.b.webm is named.
C6_Witness ==
    /\ DownloadReturned
    /\ ~overlapped
    /\ service.info.title = <<"a",".","b">>
    /\ request.download_type = "video"
    /\ service.ext = <<"m","p","4">>
    /\ DOMAIN disk = { <<"d","o","w","n","l","o","a","d","s","/","a",".","b",".","w","e","b","m">>, <<"d","o","w","n","l","o","a","d","s","/","a",".","b",".","m","k","v">> }
    /\ Body.success
    /\ Body.filename = <<"a",".","b",".","w","e","b","m">>

\* The variant is one the quality listing buckets as q.
CountsFor(f, q) ==
    /\ f.height # None
    /\ f.vcodec # Some("none")
    /\ height_to_quality(f.height[1]) = Some(q)

\* C7 as stated: the filesize reported for a bucket is that of the first
\* variant, in the order of the descriptor, with a known height, a video
\* codec other than "none" and that bucket (its filesize, or its approximate
\* size when the filesize is absent); later variants of the bucket do not
\* change it.
C7_FirstSeenFilesize ==
    InfoDone =>
        LET fmts == service.info.formats
            r == Body.available_qualities
        IN  \A e \in 1..Len(r) :
                \E i \in 1..Len(fmts) :
                    /\ CountsFor(fmts[i], r[e].value)
                    /\ \A j \in 1..(i - 1) : ~CountsFor(fmts[j], r[e].value)
                    /\ r[e].filesize = IF fmts[i].filesize # None
                                       THEN fmts[i].filesize
                                       ELSE fmts[i].filesize_approx

\* C7 as amended: the same, with the approximate size reported when the
\* filesize is absent or zero.
C7_FirstSeenFilesizeUnlessZero ==
    InfoDone =>
        LET fmts == service.info.formats
            r == Body.available_qualities
        IN  \A e \in 1..Len(r) :
                \E i \in 1..Len(fmts) :
                    /\ CountsFor(fmts[i], r[e].value)
                    /\ \A j \in 1..(i - 1) : ~CountsFor(fmts[j], r[e].value)
                    /\ r[e].filesize = IF fmts[i].filesize \notin { None, Some(0) }
                                       THEN fmts[i].filesize
                                       ELSE fmts[i].filesize_approx

\* Two variants of bucket 720p: the first has filesize 0 and an approximate
\* size, the second a filesize; the first one's approximate size is reported.
C7_Witness ==
    /\ InfoDone
    /\ Len(service.info.formats) = 2
    /\ service.info.formats[1].height = Some(720)
    /\ service.info.formats[1].filesize = Some(0)
    /\ service.info.formats[1].filesize_approx = Some(70)
    /\ service.info.formats[2].height = Some(720)
    /\ service.info.formats[2].filesize = Some(300)
    /\ Len(Body.available_qualities) = 1
    /\ Body.available_qualities[1].value = "720p"
    /\ Body.available_qualities[1].filesize = Some(70)

\* C8: whenever download() returns success, the reported byte size is
\* greater than zero, on the predicted-path branch and on the fallback branch.
C8_SuccessHasPositiveSize ==
    (pc = "done" /\ request.op = "download" /\ Body.success) => Body.filesize > 0

\* The height ceiling that _get_download_options writes into the selector
Ceiling(q) == get_download_options(q, <<"m","p","4">>, "video").format[2]

\* C9: every bucket the quality list offers is selectable: some video variant
\* of the descriptor has a height <= the ceiling that _get_download_options
\* writes into the format selector for that bucket.
C9_OfferedQualityIsSelectable ==
    InfoDone =>
        LET fmts == service.info.formats
            r == Body.available_qualities
        IN  \A e \in 1..Len(r) :
                \E i \in 1..Len(fmts) :
                    /\ fmts[i].height # None
                    /\ fmts[i].vcodec # Some("none")
                    /\ fmts[i].height[1] <= Ceiling(r[e].value)

\* C10: when no variant has a video codec that is present and not "none",
\* the quality list is empty.
C10_NoVideoNoQualities ==
    ( /\ InfoDone
      /\ \A i \in 1..Len(service.info.formats) :
            ~IsPresentCodec(service.info.formats[i].vcodec) )
    => Body.available_qualities = <<>>

=============================================================================
